---------------------------- MODULE Spec2Model ----------------------------
(***************************************************************************)
(* A model of the ANTA test catalog (anta/catalog.py): the binding of a    *)
(* test's inputs (AntaTestDefinition), the loading of a catalog from a     *)
(* document (AntaCatalogFile, AntaCatalog.from_dict) or from a list        *)
(* (AntaCatalog.from_list) and the tag filter (get_tests_by_tags).         *)
(*                                                                         *)
(* Python values are modelled as follows.  An Optional value is a sequence *)
(* of length 0 (None) or 1.  A dict is a function from its string keys, a  *)
(* dict whose order matters (a catalog document) a sequence of key/value   *)
(* pairs with distinct keys.  A dotted module name is the sequence of its  *)
(* components, with a flag for a leading dot.  A call returns a record     *)
(* [ok, value, err]: ok = FALSE stands for a raised exception.             *)
(***************************************************************************)
EXTENDS Integers, Sequences, FiniteSets, TLC

VARIABLES
    pc,       \* "idle" before the first call, then the kind of the last call
    call,     \* the last call: its name and its arguments
    ret,      \* what the last call returned or raised
    catalog,  \* the AntaCatalog object held by the caller: None or <<[tests, filename]>>
    held,     \* TRUE when the caller holds a reference to the list object catalog._tests
    log,      \* the records handed to the logger, oldest first
    rpc,      \* the position of runner.main: "idle" before it is called
    job,      \* the arguments of runner.main: inventory, tests, tags, established_only
    conn,     \* per device of the inventory: the state of its connection
    selected, \* what inventory.get_inventory returned: None before it is called
    units,    \* the coroutines of runner.main, in the order of their creation
    handed,   \* the arguments of the calls of manager.add_test_results, oldest first
    results   \* the results the manager holds

\* the state of the caller of the catalog
libVars == <<pc, call, ret, catalog, held>>
\* the state of a run of runner.main
runVars == <<rpc, job, conn, selected, units, handed, results>>

vars == <<pc, call, ret, catalog, held, log, rpc, job, conn, selected, units, handed, results>>

-----------------------------------------------------------------------------
(* Bounds of the model.                                                    *)

\* longest list of tags, in a test's filters and in a request
MaxTags == 2
\* longest list of (test, inputs) pairs given to from_list
MaxList == 2
\* longest list of entries under one module of a catalog document
MaxLeaf == 2
\* most keys of a catalog document (at the top level and in a nested mapping)
MaxKeys == 2
\* the length of the longest list of tests given to runner.main
MaxTests == 3
\* the most days between the clock of a device and the expiry of a certificate, and the
\* largest expiry threshold
MaxDays == 3
\* the length of the longest specific_mtu list
MaxSpecific == 2

-----------------------------------------------------------------------------
(* Python's None and Optional values.                                      *)

None == <<>>
Some(v) == <<v>>
Range(s) == {s[i] : i \in DOMAIN s}

SeqsUpTo(S, n) == UNION {[1..k -> S] : k \in 0..n}

\* a returned value, and a raised exception
Return(v) == [ok |-> TRUE, value |-> v, err |-> [exc |-> "", code |-> "", test |-> "", detail |-> {}]]
Raise(exc, code, test, detail) ==
    [ok |-> FALSE, value |-> None, err |-> [exc |-> exc, code |-> code, test |-> test, detail |-> detail]]

-----------------------------------------------------------------------------
(* The test classes and their Input schemas.                               *)

\* AntaTest subclasses of anta.tests.security
TestClasses == {"VerifySSHStatus", "VerifyTelnetStatus", "VerifySSHIPv4Acl", "VerifyAPIHttpsSSL"}

\* test_class.Input: a test that declares no Input class inherits AntaTest.Input
InputOf(test) ==
    CASE test = "VerifySSHIPv4Acl" -> "VerifySSHIPv4Acl.Input"
      [] test = "VerifyAPIHttpsSSL" -> "VerifyAPIHttpsSSL.Input"
      [] OTHER -> "AntaTest.Input"

InputClasses == {InputOf(t) : t \in TestClasses}

\* issubclass(c, d) for Input classes: each one derives from AntaTest.Input
IsSubclass(c, d) == c = d \/ d = "AntaTest.Input"

\* the fields every Input has: both have a default, None
BaseFields == {"result_overwrite", "filters"}

\* the fields an Input class declares itself
OwnFields(cls) ==
    CASE cls = "VerifySSHIPv4Acl.Input" -> {"number", "vrf"}
      [] cls = "VerifyAPIHttpsSSL.Input" -> {"profile"}
      [] OTHER -> {}

Fields(cls) == BaseFields \cup OwnFields(cls)

\* the fields declared without a default value
RequiredFields(cls) ==
    CASE cls = "VerifySSHIPv4Acl.Input" -> {"number"}
      [] cls = "VerifyAPIHttpsSSL.Input" -> {"profile"}
      [] OTHER -> {}

\* the default of a field that has one
Default(f) == IF f = "vrf" THEN "default" ELSE None

\* number: PositiveInteger
FieldValueOk(f, v) == IF f = "number" THEN v > 0 ELSE TRUE

-----------------------------------------------------------------------------
(* Raw inputs: what a caller or a document gives as a test's inputs.       *)

\* type(data).__name__ of a raw input is its kind
RawNone == [kind |-> "NoneType"]
RawDict(d) == [kind |-> "dict", data |-> d]
RawInstance(obj) == [kind |-> "Input", obj |-> obj]
RawOther(typename) == [kind |-> typename]

\* an Input instance: its class and the value of each of its fields
Instance(cls, vals) == [cls |-> cls, vals |-> vals]

\* Filters(tags=...) as the value of the field filters
Filters(tags) == Some([tags |-> tags])

(* Input(data): the errors of the construction.  A required   *)
(* field that is not given is missing, a key that is no field is forbidden,*)
(* a given value must satisfy its field's type.                            *)
InputErrors(cls, data) ==
    {[loc |-> f, type |-> "missing"] : f \in RequiredFields(cls) \ DOMAIN data}
    \cup {[loc |-> k, type |-> "extra_forbidden"] : k \in DOMAIN data \ Fields(cls)}
    \cup {[loc |-> f, type |-> "greater_than"] :
            f \in {g \in DOMAIN data \cap Fields(cls) : ~FieldValueOk(g, data[g])}}

\* the instance Input(data) builds when there is no error
NewInput(cls, data) ==
    Instance(cls, [f \in Fields(cls) |-> IF f \in DOMAIN data THEN data[f] ELSE Default(f)])

\* instantiate_inputs building a new Input from the defaults for an instance too
instantiate_inputs_rebuilding(test_class, data) ==
    LET cls == InputOf(test_class)
        fields == IF data.kind = "dict" THEN data.data ELSE <<>>
    IN  IF data.kind \in {"NoneType", "dict", "Input"}
        THEN IF InputErrors(cls, fields) = {}
             THEN Return(NewInput(cls, fields))
             ELSE Raise("PydanticCustomError", "wrong_test_inputs", test_class, InputErrors(cls, fields))
        ELSE Raise("ValueError", "type_not_valid", "", {data.kind})

\* instantiate_inputs building the Input of None without validating it
instantiate_inputs_unvalidated(test_class, data) ==
    LET cls == InputOf(test_class)
        fields == IF data.kind = "dict" THEN data.data ELSE <<>>
    IN  IF data.kind = "Input"
        THEN Return(data.obj)
        ELSE IF data.kind = "NoneType"
        THEN Return(NewInput(cls, fields))
        ELSE IF data.kind = "dict"
        THEN IF InputErrors(cls, fields) = {}
             THEN Return(NewInput(cls, fields))
             ELSE Raise("PydanticCustomError", "wrong_test_inputs", test_class, InputErrors(cls, fields))
        ELSE Raise("ValueError", "type_not_valid", "", {data.kind})

\* instantiate_inputs taking any other value for None
instantiate_inputs_coercing(test_class, data) ==
    LET cls == InputOf(test_class)
        fields == IF data.kind = "dict" THEN data.data ELSE <<>>
    IN  IF data.kind = "Input"
        THEN Return(data.obj)
        ELSE IF InputErrors(cls, fields) = {}
        THEN Return(NewInput(cls, fields))
        ELSE Raise("PydanticCustomError", "wrong_test_inputs", test_class, InputErrors(cls, fields))

(* AntaTestDefinition.instantiate_inputs, the "before" validator of the    *)
(* field inputs: an Input instance passes through, None and a dict build   *)
(* test_class.Input, anything else is refused.                             *)
instantiate_inputs(test_class, data) ==
    LET cls == InputOf(test_class)
        fields == IF data.kind = "dict" THEN data.data ELSE <<>>
    IN  IF data.kind = "Input"
        THEN Return(data.obj)
        ELSE IF data.kind \in {"NoneType", "dict"}
        THEN IF InputErrors(cls, fields) = {}
             THEN Return(NewInput(cls, fields))
             ELSE Raise("PydanticCustomError", "wrong_test_inputs", test_class, InputErrors(cls, fields))
        ELSE Raise("ValueError", "type_not_valid", "", {data.kind})

\* check_inputs accepting an instance of any Input class
check_inputs_accepting(test, inputs) == Return([test |-> test, inputs |-> inputs])

(* AntaTestDefinition.check_inputs, the "after" validator of the model:    *)
(* isinstance(self.inputs, self.test.Input).                               *)
check_inputs(test, inputs) ==
    IF ~IsSubclass(inputs.cls, InputOf(test))
    THEN Raise("ValueError", "input_type", test, {inputs.cls})
    ELSE Return([test |-> test, inputs |-> inputs])

(* AntaTestDefinition(test=test, inputs=inputs): pydantic runs the before  *)
(* validator of inputs, then the after validator of the model; an error of *)
(* either is raised as a ValidationError that carries it.                  *)
AntaTestDefinition(test, inputs) ==
    LET bound == instantiate_inputs(test, inputs)
        checked == check_inputs(test, bound.value)
    IN  IF ~bound.ok
        THEN Raise("ValidationError", bound.err.code, bound.err.test, bound.err.detail)
        ELSE IF ~checked.ok
        THEN Raise("ValidationError", checked.err.code, checked.err.test, checked.err.detail)
        ELSE checked

-----------------------------------------------------------------------------
(* AntaCatalog.                                                            *)

\* AntaCatalog(tests, filename): the object's _tests and _filename
AntaCatalog(tests, filename) == [tests |-> tests, filename |-> filename]

\* from_list that keeps one definition for the pairs that are repeated
from_list_deduplicating(data) ==
    LET defs == [i \in DOMAIN data |-> AntaTestDefinition(data[i].test, data[i].inputs)]
        failed == {i \in DOMAIN data : ~defs[i].ok}
        first == CHOOSE i \in failed : \A j \in failed : i <= j
        kept == SelectSeq([i \in DOMAIN data |-> i],
                          LAMBDA i : \A k \in 1..(i - 1) : data[k] # data[i])
    IN  IF failed # {}
        THEN defs[first]
        ELSE Return(AntaCatalog([i \in DOMAIN kept |-> defs[kept[i]].value], None))

(* AntaCatalog.from_list(data): one AntaTestDefinition per pair, in order; *)
(* the first pair that does not validate raises its ValidationError.       *)
from_list(data) ==
    LET defs == [i \in DOMAIN data |-> AntaTestDefinition(data[i].test, data[i].inputs)]
        failed == {i \in DOMAIN data : ~defs[i].ok}
        first == CHOOSE i \in failed : \A j \in failed : i <= j
    IN  IF failed # {}
        THEN defs[first]
        ELSE Return(AntaCatalog([i \in DOMAIN data |-> defs[i].value], None))

\* test.inputs.filters and (f := test.inputs.filters.tags): the tags f, when truthy
DeclaredTags(test) ==
    LET filters == test.inputs.vals.filters
    IN  IF filters = None THEN <<>>
        ELSE IF filters[1].tags = None THEN <<>>
        ELSE filters[1].tags[1]

\* TagsMatch with the strict test applied whatever strict is
TagsMatchAlwaysAll(test, tags, strict) ==
    LET f == DeclaredTags(test)
    IN  f # <<>> /\ \A i \in DOMAIN f : f[i] \in Range(tags)

\* TagsMatch with strict ignored
TagsMatchAlwaysAny(test, tags, strict) ==
    LET f == DeclaredTags(test)
    IN  f # <<>> /\ \E i \in DOMAIN f : f[i] \in Range(tags)

\* TagsMatch without the test that the declared tags are not empty
TagsMatchUnguarded(test, tags, strict) ==
    LET f == DeclaredTags(test)
    IN  IF strict
        THEN \A i \in DOMAIN f : f[i] \in Range(tags)
        ELSE \E i \in DOMAIN f : f[i] \in Range(tags)

\* TagsMatch with the two branches of strict the other way round
TagsMatchSwapped(test, tags, strict) ==
    LET f == DeclaredTags(test)
    IN  /\ f # <<>>
        /\ IF strict
           THEN \E i \in DOMAIN f : f[i] \in Range(tags)
           ELSE \A i \in DOMAIN f : f[i] \in Range(tags)

\* the condition under which get_tests_by_tags appends a test to its result
TagsMatch(test, tags, strict) ==
    LET f == DeclaredTags(test)
    IN  /\ f # <<>>
        /\ IF strict
           THEN \A i \in DOMAIN f : f[i] \in Range(tags)
           ELSE \E i \in DOMAIN f : f[i] \in Range(tags)

\* AntaCatalog.get_tests_by_tags(self, tags, strict)
get_tests_by_tags(self, tags, strict) ==
    SelectSeq(self.tests, LAMBDA test : TagsMatch(test, tags, strict))

-----------------------------------------------------------------------------
(* The catalog document and the modules its keys name.                     *)

\* a module name: its components, and whether it starts with a dot
Name(rel, path) == [rel |-> rel, path |-> path]

\* the modules importlib can import, and those that are packages
Modules == {<<"anta">>, <<"anta", "tests">>, <<"anta", "tests", "security">>}

\* getattr(module, test_name, None): the test classes a module defines
Members(module) == IF module = <<"anta", "tests", "security">> THEN TestClasses ELSE {}

(* importlib.import_module(name, package): a name with a leading dot is    *)
(* resolved from package (and needs one), another name is absolute.        *)
import_module(name, package) ==
    LET target == IF name.rel
                  THEN (IF package = None THEN <<>> ELSE package[1] \o name.path)
                  ELSE name.path
    IN  IF target \in Modules
        THEN Return(target)
        ELSE Raise("ModuleNotFoundError", "import", "", {target})

\* modules[module] = tests, on a dict kept as a sequence of its items
DictSet(modules, module, tests) ==
    IF \E i \in DOMAIN modules : modules[i].key = module
    THEN [i \in DOMAIN modules |->
            IF modules[i].key = module THEN [key |-> module, value |-> tests] ELSE modules[i]]
    ELSE Append(modules, [key |-> module, value |-> tests])

\* modules.update(other)
RECURSIVE DictUpdate(_, _)
DictUpdate(modules, other) ==
    IF other = <<>> THEN modules
    ELSE DictUpdate(DictSet(modules, other[1].key, other[1].value), Tail(other))

(* The loop of flatten_modules without its first statement: a nested key   *)
(* is handed to import_module as it is written.                            *)
RECURSIVE FlattenFromUnprefixed(_, _, _, _)
FlattenFromUnprefixed(items, i, package, modules) ==
    IF i > Len(items) THEN Return(modules)
    ELSE
      LET module_name == items[i].key
          tests == items[i].value
          module == import_module(module_name, package)
          inner == FlattenFromUnprefixed(tests.items, 1, Some(module.value), <<>>)
      IN  IF ~module.ok
          THEN Raise("ValueError", "module_import", "", {[module |-> module_name.path, package |-> package]})
          ELSE IF tests.kind = "dict"
          THEN IF ~inner.ok THEN inner
               ELSE FlattenFromUnprefixed(items, i + 1, package, DictUpdate(modules, inner.value))
          ELSE IF tests.kind # "list"
          THEN Raise("ValueError", "syntax_not_a_list", "", {tests})
          ELSE FlattenFromUnprefixed(items, i + 1, package, DictSet(modules, module.value, tests.items))

(* AntaCatalogFile.flatten_modules(data, package): the loop over the items *)
(* of data from the i-th on, modules being the dict built so far.  A key   *)
(* without a leading dot gets one when package is given.                   *)
RECURSIVE FlattenFrom(_, _, _, _)
FlattenFrom(items, i, package, modules) ==
    IF i > Len(items) THEN Return(modules)
    ELSE
      LET key == items[i].key
          tests == items[i].value
          module_name == IF package # None /\ ~key.rel THEN Name(TRUE, key.path) ELSE key
          module == import_module(module_name, package)
          inner == FlattenFrom(tests.items, 1, Some(module.value), <<>>)
      IN  IF ~module.ok
          THEN Raise("ValueError", "module_import", "", {[module |-> module_name.path, package |-> package]})
          ELSE IF tests.kind = "dict"
          THEN IF ~inner.ok THEN inner
               ELSE FlattenFrom(items, i + 1, package, DictUpdate(modules, inner.value))
          ELSE IF tests.kind # "list"
          THEN Raise("ValueError", "syntax_not_a_list", "", {tests})
          ELSE FlattenFrom(items, i + 1, package, DictSet(modules, module.value, tests.items))

flatten_modules(data, package) == FlattenFrom(data.items, 1, package, <<>>)

(* The body of the loop of check_tests over the entries of one module:     *)
(* what one entry gives, an AntaTestDefinition or the error raised.        *)
CheckEntry(module, test_definition) ==
    IF test_definition.kind # "dict"
    THEN Raise("ValueError", "syntax_not_a_dict", "", {test_definition})
    ELSE IF Len(test_definition.items) # 1
    THEN Raise("ValueError", "syntax_not_single_entry", "", {test_definition})
    ELSE LET test_name == test_definition.items[1].key
             test_inputs == test_definition.items[1].value
         IN  IF test_name \notin Members(module)
             THEN Raise("ValueError", "test_not_defined", test_name, {module})
             ELSE AntaTestDefinition(test_name, test_inputs)

(* AntaCatalogFile.check_tests(data), for a dict: the flattened modules,   *)
(* each with its list of AntaTestDefinition; the first error, in the order *)
(* of the modules and of their entries, is raised.                         *)
check_tests(data) ==
    LET typed_data == flatten_modules(data, None)
        mods == typed_data.value
        defs == [m \in DOMAIN mods |->
                    [e \in DOMAIN mods[m].value |-> CheckEntry(mods[m].key, mods[m].value[e])]]
        failed == {p \in UNION {{<<m, e>> : e \in DOMAIN mods[m].value} : m \in DOMAIN mods} :
                      ~defs[p[1]][p[2]].ok}
        first == CHOOSE p \in failed :
                    \A q \in failed : p[1] < q[1] \/ (p[1] = q[1] /\ p[2] <= q[2])
    IN  IF ~typed_data.ok THEN typed_data
        ELSE IF failed # {} THEN defs[first[1]][first[2]]
        ELSE Return([m \in DOMAIN mods |->
                        [key |-> mods[m].key,
                         value |-> [e \in DOMAIN mods[m].value |-> defs[m][e].value]]])

\* for t in catalog_data.root.values(): tests.extend(t)
RECURSIVE ExtendAll(_)
ExtendAll(root) == IF root = <<>> THEN <<>> ELSE root[1].value \o ExtendAll(Tail(root))

(* AntaCatalog.from_dict(data, filename).  AntaCatalogFile(data) hands   *)
(* the validator check_tests the dict data when it has keys; with no key   *)
(* it hands it no dict, and check_tests then returns typed_data, which it  *)
(* never assigned.  An error of check_tests is raised as a ValidationError.*)
from_dict(data, filename) ==
    LET catalog_data == check_tests(data)
    IN  IF data.kind = "NoneType" THEN Return(AntaCatalog(<<>>, filename))
        ELSE IF data.kind # "dict" THEN Raise("TypeError", "wrong_input_type", "", {data.kind})
        ELSE IF data.items = <<>> THEN Raise("UnboundLocalError", "typed_data", "", {})
        ELSE IF ~catalog_data.ok
        THEN Raise("ValidationError", catalog_data.err.code, catalog_data.err.test, catalog_data.err.detail)
        ELSE Return(AntaCatalog(ExtendAll(catalog_data.value), filename))

-----------------------------------------------------------------------------
(* The inputs the model draws.                                             *)

TagOrder == <<"dc1", "dc2", "dc3">>
Tags == Range(TagOrder)

\* the lists of at most MaxTags distinct tags, each in the order of TagOrder
TagLists ==
    {[i \in DOMAIN s |-> TagOrder[s[i]]] :
        s \in {t \in SeqsUpTo(DOMAIN TagOrder, MaxTags) : \A i, j \in DOMAIN t : i < j => t[i] < t[j]}}

\* Input instances a caller may hold
Instances ==
    {NewInput("AntaTest.Input", <<>>),
     NewInput("AntaTest.Input", [filters |-> Filters(Some(<<"dc1">>))]),
     NewInput("VerifySSHIPv4Acl.Input", [number |-> 1]),
     NewInput("VerifySSHIPv4Acl.Input", [number |-> 2, vrf |-> "MGMT"]),
     NewInput("VerifyAPIHttpsSSL.Input", [profile |-> "p"])}

\* raw inputs given to the constructor of AntaTestDefinition
BindRaws ==
    {RawNone, RawOther("list"), RawOther("str"), RawOther("int")}
    \cup {RawInstance(i) : i \in Instances}
    \cup {RawDict(d) : d \in {<<>>, [number |-> 0], [number |-> 1], [number |-> 1, vrf |-> "MGMT"],
                              [profile |-> "p"], [bogus |-> 1], [vrf |-> "MGMT"],
                              [filters |-> Filters(Some(<<"dc1">>))],
                              [number |-> 1, filters |-> Filters(None)]}}

\* the (test, inputs) pairs given to from_list
ListPairs ==
    {[test |-> "VerifySSHStatus", inputs |-> r] :
        r \in {RawNone, RawOther("list"), RawDict([filters |-> Filters(None)]),
               RawInstance(NewInput("VerifySSHIPv4Acl.Input", [number |-> 1]))}
              \cup {RawDict([filters |-> Filters(Some(l))]) : l \in TagLists}}
    \cup {[test |-> "VerifySSHIPv4Acl", inputs |-> r] :
        r \in {RawNone, RawDict([number |-> 1, filters |-> Filters(Some(<<"dc1", "dc2">>))])}}

\* a document value: a mapping (its items in order), a list, or a scalar
DictValue(items) == [kind |-> "dict", items |-> items]
ListValue(items) == [kind |-> "list", items |-> items]
Item(key, value) == [key |-> key, value |-> value]

\* an entry {test_name: inputs} of a module's list
Entry(test_name, inputs) == DictValue(<<Item(test_name, inputs)>>)

\* the entries the documents are made of: well formed or not, valid or not
GoodEntry == Entry("VerifySSHStatus", RawNone)
UnboundEntry == Entry("VerifySSHIPv4Acl", RawNone)
TwoKeyEntry == DictValue(<<Item("VerifySSHStatus", RawNone), Item("VerifyTelnetStatus", RawNone)>>)
Entries ==
    {GoodEntry, UnboundEntry, TwoKeyEntry,
     Entry("VerifySSHIPv4Acl", RawDict([number |-> 1])),
     Entry("VerifySSHStatus", RawOther("list")),
     Entry("NoSuchTest", RawNone),
     DictValue(<<>>),
     RawOther("str")}

\* the keys of a document, at the top level and in a nested mapping
SecurityKey == Name(FALSE, <<"anta", "tests", "security">>)
PackageKey == Name(FALSE, <<"anta", "tests">>)
TopKeys == {SecurityKey, PackageKey, Name(FALSE, <<"anta", "nope">>)}
NestedKeys == {Name(TRUE, <<"security">>), Name(FALSE, <<"security">>), SecurityKey}

\* the short lists that stand under the keys of a document with several keys
ShortLeaves ==
    {ListValue(l) : l \in {<<>>, <<GoodEntry>>, <<UnboundEntry>>, <<TwoKeyEntry>>}} \cup {RawOther("str")}

\* the mappings of at most n items, their keys distinct and among keys, the value
\* of key k among values[k]
RECURSIVE Mappings(_, _, _)
Mappings(keys, n, values) ==
    IF n = 0 THEN {<<>>}
    ELSE {<<>>} \cup UNION {LET rests == Mappings(keys \ {k}, n - 1, values)
                            IN  {<<Item(k, v)>> \o rest : v \in values[k], rest \in rests} :
                            k \in keys}

\* the nested mappings: a list of at most one entry under each key
NestedMappings ==
    Mappings(NestedKeys, MaxKeys,
             [k \in NestedKeys |-> {ListValue(l) : l \in {<<>>, <<GoodEntry>>, <<UnboundEntry>>}}])

\* the values a key of the top level may have
TopValues ==
    [k \in TopKeys |->
        IF k = PackageKey
        THEN {ListValue(<<GoodEntry>>)} \cup {DictValue(m) : m \in NestedMappings}
        ELSE IF k = SecurityKey
        THEN ShortLeaves \cup {DictValue(<<Item(Name(TRUE, <<"security">>), ListValue(<<>>))>>)}
        ELSE {ListValue(<<GoodEntry>>)}]

\* the documents of three levels: a package, a package in it, a module in that one
DeepDocuments ==
    {DictValue(<<Item(Name(FALSE, <<"anta">>),
                      DictValue(<<Item(Name(rel, <<"tests">>),
                                       DictValue(<<Item(k, ListValue(<<GoodEntry>>))>>))>>))>>) :
        rel \in BOOLEAN, k \in NestedKeys}

\* the documents given to from_dict: one module with a list of entries, several keys, no dict
Documents ==
    {DictValue(<<Item(SecurityKey, ListValue(l))>>) : l \in SeqsUpTo(Entries, MaxLeaf)}
    \cup {DictValue(m) : m \in Mappings(TopKeys, MaxKeys, TopValues)}
    \cup {DictValue(<<Item(Name(TRUE, <<"security">>), ListValue(<<GoodEntry>>))>>)}
    \cup DeepDocuments
    \cup {RawNone, RawOther("list")}

Filenames == {None, Some("catalog.yml")}

\* a record handed to the logger: its level, its message, the file name the message quotes
LogRecord(level, msg, path) == [level |-> level, msg |-> msg, path |-> path]

\* what from_dict logs: a warning for no data, the validation error with the file name
from_dict_log(data, filename, result) ==
    IF data.kind = "NoneType" THEN <<LogRecord("warning", "Catalog input data is empty", None)>>
    ELSE IF ~result.ok /\ result.err.exc = "ValidationError"
    THEN (IF result.err.code = "module_import"
          THEN <<LogRecord("critical", "Module cannot be imported", None)>> ELSE <<>>)
         \o <<LogRecord("critical", "Test catalog is invalid!", filename)>>
    ELSE <<>>

-----------------------------------------------------------------------------
(* Parsing a catalog file.                                                 *)

\* the filename argument of parse: a path, or a value Path() does not take
PathName(path) == [kind |-> "str", path |-> path]
ParseNames == {PathName("catalog.yml"), [kind |-> "NoneType", path |-> "None"]}

\* the documents a file may hold
ParseDocuments ==
    {RawNone, RawOther("list"), DictValue(<<>>)}
    \cup {DictValue(<<Item(SecurityKey, ListValue(<<e>>))>>) : e \in Entries}

\* the file at a path: absent, not UTF-8, not YAML, or the YAML of a document
Files ==
    {[state |-> st, data |-> RawNone] : st \in {"missing", "undecodable", "malformed"}}
    \cup {[state |-> "yaml", data |-> d] : d \in ParseDocuments}

(* Path(filename), file.open(encoding="UTF-8"), safe_load(f): the data of  *)
(* the file, or the exception raised on the way.                           *)
safe_load(filename, file) ==
    IF filename.kind # "str" THEN Raise("TypeError", "Path", "", {})
    ELSE IF file.state = "missing" THEN Raise("OSError", "open", "", {filename.path})
    ELSE IF file.state = "undecodable" THEN Raise("UnicodeDecodeError", "read", "", {})
    ELSE IF file.state = "malformed" THEN Raise("YAMLError", "safe_load", "", {})
    ELSE Return(file.data)

\* except (TypeError, YAMLError, OSError)
ParseCatches(err) == err.exc \in {"TypeError", "YAMLError", "OSError"}

\* parse with an except clause that ends without raising: the data is then None
parse_swallowing(filename, file) ==
    LET data == safe_load(filename, file)
    IN  IF ~data.ok /\ ~ParseCatches(data.err) THEN data
        ELSE from_dict(IF data.ok THEN data.value ELSE RawNone, Some(filename.path))

(* AntaCatalog.parse(filename): an exception of the reading is logged when *)
(* it is caught, and raised again as it is; from_dict gets the data read.  *)
parse(filename, file) ==
    LET data == safe_load(filename, file)
    IN  IF ~data.ok THEN data
        ELSE from_dict(data.value, Some(filename.path))

\* what parse logs: the message that quotes the file name, then what from_dict logs
parse_log(filename, file, result) ==
    LET data == safe_load(filename, file)
    IN  IF data.ok THEN from_dict_log(data.value, Some(filename.path), result)
        ELSE IF ParseCatches(data.err)
        THEN <<LogRecord("critical", "Unable to parse ANTA Test Catalog file", Some(filename.path))>>
        ELSE <<>>

-----------------------------------------------------------------------------
(* The tests of a catalog: its constructor, its property and its setter.   *)

\* what a caller may put in a list: two definitions, and a string
StoreDefinitions ==
    {AntaTestDefinition(test, RawNone).value : test \in {"VerifySSHStatus", "VerifyTelnetStatus"}}
StoreElements == StoreDefinitions \cup {RawOther("str")}

\* isinstance(t, AntaTestDefinition)
IsDefinition(t) == "test" \in DOMAIN t

\* what a caller may assign to catalog.tests: a list, a tuple of definitions, None
StoreValues ==
    {ListValue(l) : l \in SeqsUpTo(StoreElements, MaxList)}
    \cup {[kind |-> "tuple", items |-> l] : l \in SeqsUpTo(StoreDefinitions, MaxList)}
    \cup {RawNone}

\* the setter without its loop: any list is stored
tests_setter_unchecked(self, value) ==
    IF value.kind # "list"
    THEN Raise("TypeError", "not_a_list", "", {value.kind})
    ELSE Return([self EXCEPT !.tests = value.items])

(* AntaCatalog.tests = value: value must be a list, each of its elements   *)
(* an AntaTestDefinition, and then it becomes the list of the catalog.     *)
tests_setter(self, value) ==
    IF value.kind # "list"
    THEN Raise("TypeError", "not_a_list", "", {value.kind})
    ELSE IF \E i \in DOMAIN value.items : ~IsDefinition(value.items[i])
    THEN Raise("TypeError", "not_a_definition", "", {})
    ELSE Return([self EXCEPT !.tests = value.items])

-----------------------------------------------------------------------------
(* The result of a test, and VerifyAPISSLCertificate.test.                 *)

\* self.result.is_success(), and self.result.is_failure(message)
is_success(result) == [result EXCEPT !.result = "success"]
is_failure(result, message) == [result |-> "failure", messages |-> Append(result.messages, message)]
UnsetResult == [result |-> "unset", messages |-> <<>>]

\* the seconds of a day: timedelta.days counts them off, rounding down
DaySeconds == 86400

\* (datetime.fromtimestamp(expiry_time) - datetime.fromtimestamp(current_timestamp)).days
day_difference(expiry_time, current_timestamp) == (expiry_time - current_timestamp) \div DaySeconds

\* the details of a certificate that are compared: common name, algorithm, key size
ExpectedDetails == [commonName |-> "cn", encryptionAlgorithm |-> "RSA", size |-> 4096]
OtherDetails == [commonName |-> "cn", encryptionAlgorithm |-> "RSA", size |-> 2048]

\* a message of failure about a certificate
CertMessage(name, about) == [certificate |-> name, about |-> about]

\* the expiry check: if 0 < day_difference < expiry_threshold ... elif day_difference < 0 ...
expiry_messages(name, days, threshold) ==
    IF 0 < days /\ days < threshold THEN <<CertMessage(name, "about_to_expire")>>
    ELSE IF days < 0 THEN <<CertMessage(name, "expired")>>
    ELSE <<>>

(* The loop of VerifyAPISSLCertificate.test over the certificates of the   *)
(* inputs from the i-th on: output[name] is what the device shows for the  *)
(* certificate of that name, None when it shows none.                      *)
RECURSIVE CertificateLoop(_, _, _, _, _)
CertificateLoop(certificates, i, output, current_timestamp, result) ==
    IF i > Len(certificates) THEN result
    ELSE
      LET certificate == certificates[i]
          name == certificate.certificate_name
          certificate_data == output[name]
          days == day_difference(certificate_data[1].notAfter, current_timestamp)
          expiry == expiry_messages(name, days, certificate.expiry_threshold)
          details == IF certificate_data[1].details # ExpectedDetails
                     THEN <<CertMessage(name, "not_configured_properly")>> ELSE <<>>
          messages == expiry \o details
      IN  IF certificate_data = None
          THEN CertificateLoop(certificates, i + 1, output, current_timestamp,
                               is_failure(result, CertMessage(name, "not_configured")))
          ELSE CertificateLoop(certificates, i + 1, output, current_timestamp,
                               IF messages = <<>> THEN result
                               ELSE [result |-> "failure", messages |-> result.messages \o messages])

\* VerifyAPISSLCertificate.test: success unless a certificate gives a failure
VerifyAPISSLCertificate_test(certificates, output, current_timestamp) ==
    CertificateLoop(certificates, 1, output, current_timestamp, is_success(UnsetResult))

\* the names of the certificates, the inputs of the test and the outputs of the device
CertificateNames == <<"c1", "c2">>
CertificateInputs ==
    {[i \in 1..n |-> [certificate_name |-> CertificateNames[i], expiry_threshold |-> t[i]]] :
        n \in {1, 2}, t \in [1..2 -> 0..MaxDays]}
CertificateData ==
    {None} \cup {Some([notAfter |-> d * DaySeconds + r, details |-> det]) :
                    d \in (0 - MaxDays)..(MaxDays + 1), r \in {0, 3600},
                    det \in {ExpectedDetails, OtherDetails}}
CertificateOutputs ==
    {[n \in Range(CertificateNames) |-> IF n = "c1" THEN a ELSE b] :
        a \in CertificateData, b \in {None, Some([notAfter |-> DaySeconds, details |-> ExpectedDetails])}}

-----------------------------------------------------------------------------
(* VerifyL3MTU.test.                                                       *)

\* the interfaces a device may show, in the order of its output
InterfaceNames == <<"Ethernet1", "Ethernet2", "Loopback0">>

\* re.findall(r"[a-z]+", interface, re.IGNORECASE)[0]: the letters the name starts with
InterfacePrefix(interface) ==
    IF interface = "Loopback0" THEN "Loopback" ELSE "Ethernet"

\* the default of ignored_interfaces
ignored_interfaces == {"Management", "Loopback", "Vxlan", "Tunnel"}

\* the keys of the dicts of specific_mtu, one after the other
RECURSIVE SpecificInterfaces(_)
SpecificInterfaces(specific_mtu) ==
    IF specific_mtu = <<>> THEN {}
    ELSE DOMAIN specific_mtu[1] \cup SpecificInterfaces(Tail(specific_mtu))

(* The loop of VerifyL3MTU.test over the interfaces of the output from the *)
(* i-th on, wrong being wrong_l3mtu_intf so far.  For an interface of      *)
(* specific_mtu every dict of the list is read at the interface's name: a  *)
(* dict without that key raises KeyError.                                  *)
RECURSIVE L3MTULoop(_, _, _, _)
L3MTULoop(inputs, output, i, wrong) ==
    IF i > Len(InterfaceNames) THEN Return(wrong)
    ELSE
      LET interface == InterfaceNames[i]
          values == output[interface]
          differing == SelectSeq(inputs.specific_mtu,
                                 LAMBDA custom_data : values[1].mtu # custom_data[interface])
      IN  IF values = None THEN L3MTULoop(inputs, output, i + 1, wrong)
          ELSE IF InterfacePrefix(interface) \in ignored_interfaces
                  \/ values[1].forwardingModel # "routed"
          THEN L3MTULoop(inputs, output, i + 1, wrong)
          ELSE IF interface \in SpecificInterfaces(inputs.specific_mtu)
          THEN IF \E k \in DOMAIN inputs.specific_mtu : interface \notin DOMAIN inputs.specific_mtu[k]
               THEN Raise("KeyError", "custom_data", "VerifyL3MTU", {interface})
               ELSE L3MTULoop(inputs, output, i + 1,
                              wrong \o [k \in DOMAIN differing |-> [interface |-> interface, mtu |-> values[1].mtu]])
          ELSE IF values[1].mtu # inputs.mtu
          THEN L3MTULoop(inputs, output, i + 1,
                         Append(wrong, [interface |-> interface, mtu |-> values[1].mtu]))
          ELSE L3MTULoop(inputs, output, i + 1, wrong)

\* VerifyL3MTU.test: failure when wrong_l3mtu_intf is not empty, success otherwise
VerifyL3MTU_test(inputs, output) ==
    LET wrong == L3MTULoop(inputs, output, 1, <<>>)
    IN  IF ~wrong.ok THEN wrong
        ELSE IF wrong.value # <<>>
        THEN Return(is_failure(UnsetResult, [about |-> "wrong_mtu", interfaces |-> wrong.value]))
        ELSE Return(is_success(UnsetResult))

\* the MTUs of the inputs and of the outputs
MTUs == {1500, 9000}

\* the inputs of VerifyL3MTU: the global mtu, and a list of dicts of one interface each
L3MTUInputs ==
    [mtu : MTUs,
     specific_mtu : SeqsUpTo({[n \in {name} |-> m] : name \in {"Ethernet1", "Ethernet2"}, m \in MTUs},
                             MaxSpecific)]

\* what "show interfaces" gives: for each interface nothing, or its model and its MTU
L3MTUOutputs ==
    [Range(InterfaceNames) ->
        {None} \cup {Some([forwardingModel |-> f, mtu |-> m]) : f \in {"routed", "bridged"}, m \in MTUs}]

-----------------------------------------------------------------------------
(* The state machine: a caller of the library.                             *)

NoCall == [op |-> "none"]
NoJob == [op |-> "none"]

Init ==
    /\ pc = "idle"
    /\ call = NoCall
    /\ ret = Return(None)
    /\ catalog = None
    /\ held = FALSE
    /\ log = <<>>
    /\ rpc = "idle"
    /\ job = NoJob
    /\ conn = <<>>
    /\ selected = None
    /\ units = <<>>
    /\ handed = <<>>
    /\ results = <<>>

\* AntaTestDefinition(test=test, inputs=inputs)
Construct ==
    /\ pc = "idle"
    /\ \E test \in TestClasses, inputs \in BindRaws :
        /\ call' = [op |-> "AntaTestDefinition", test |-> test, inputs |-> inputs, prev |-> None]
        /\ ret' = AntaTestDefinition(test, inputs)
    /\ pc' = "bound"
    /\ UNCHANGED <<catalog, held, log, runVars>>

\* AntaTestDefinition(test=test, inputs=d.inputs) for a definition d built before
Rebind ==
    /\ pc = "bound"
    /\ ret.ok
    /\ \E test \in TestClasses :
        /\ call' = [op |-> "AntaTestDefinition", test |-> test,
                    inputs |-> RawInstance(ret.value.inputs), prev |-> Some(ret.value)]
        /\ ret' = AntaTestDefinition(test, RawInstance(ret.value.inputs))
    /\ pc' = "rebound"
    /\ UNCHANGED <<catalog, held, log, runVars>>

\* catalog = AntaCatalog.from_list(data)
FromList ==
    /\ pc = "idle"
    /\ \E data \in SeqsUpTo(ListPairs, MaxList) :
        \E result \in {from_list(data)} :
            /\ call' = [op |-> "from_list", data |-> data]
            /\ ret' = result
            /\ catalog' = IF result.ok THEN Some(result.value) ELSE catalog
            /\ held' = (~result.ok /\ held)
    /\ pc' = "loaded"
    /\ UNCHANGED <<log, runVars>>

\* catalog.get_tests_by_tags(tags, strict=strict)
GetTestsByTags ==
    /\ pc \in {"loaded", "queried"}
    /\ catalog # None
    /\ \E tags \in TagLists, strict \in BOOLEAN :
        /\ call' = [op |-> "get_tests_by_tags", tags |-> tags, strict |-> strict]
        /\ ret' = Return(get_tests_by_tags(catalog[1], tags, strict))
    /\ pc' = "queried"
    /\ UNCHANGED <<catalog, held, log, runVars>>

\* catalog = AntaCatalog.from_dict(data, filename=filename)
FromDict ==
    /\ pc = "idle"
    /\ \E data \in Documents, filename \in Filenames :
        \E result \in {from_dict(data, filename)} :
            /\ call' = [op |-> "from_dict", data |-> data, filename |-> filename]
            /\ ret' = result
            /\ catalog' = IF result.ok THEN Some(result.value) ELSE catalog
            /\ held' = (~result.ok /\ held)
            /\ log' = log \o from_dict_log(data, filename, result)
    /\ pc' = "loaded"
    /\ UNCHANGED runVars

\* catalog = AntaCatalog.parse(filename), file being what the path holds
Parse ==
    /\ pc = "idle"
    /\ \E filename \in ParseNames, file \in Files :
        \E result \in {parse(filename, file)} :
            /\ call' = [op |-> "parse", filename |-> filename, file |-> file]
            /\ ret' = result
            /\ catalog' = IF result.ok THEN Some(result.value) ELSE catalog
            /\ held' = (~result.ok /\ held)
            /\ log' = log \o parse_log(filename, file, result)
    /\ pc' = "loaded"
    /\ UNCHANGED runVars

(* catalog = AntaCatalog(tests, filename): without tests the catalog makes  *)
(* a list of its own, with tests it keeps the list the caller passed.      *)
NewCatalog ==
    /\ pc = "idle"
    /\ \E tests \in {None} \cup {Some(l) : l \in SeqsUpTo(StoreDefinitions, MaxList)},
          filename \in Filenames :
        /\ call' = [op |-> "AntaCatalog", tests |-> tests, filename |-> filename]
        /\ catalog' = Some(AntaCatalog(IF tests = None THEN <<>> ELSE tests[1], filename))
        /\ ret' = Return(catalog'[1])
        /\ held' = (tests # None)
    /\ pc' = "stored"
    /\ UNCHANGED <<log, runVars>>

\* catalog.tests: the property returns the list of the catalog itself
ReadTests ==
    /\ catalog # None
    /\ call' = [op |-> "tests"]
    /\ ret' = Return(catalog[1].tests)
    /\ held' = TRUE
    /\ pc' = "stored"
    /\ UNCHANGED <<catalog, log, runVars>>

\* catalog.tests = value; the caller keeps the list it assigned
SetTests ==
    /\ catalog # None
    /\ \E value \in StoreValues :
        \E result \in {tests_setter(catalog[1], value)} :
            /\ call' = [op |-> "tests.setter", value |-> value, before |-> catalog[1].tests]
            /\ ret' = IF result.ok THEN Return(None) ELSE result
            /\ catalog' = IF result.ok THEN Some(result.value) ELSE catalog
            /\ held' = (result.ok \/ held)
    /\ pc' = "stored"
    /\ UNCHANGED <<log, runVars>>

\* the caller appends to the list it holds, or removes its last element
MutateHeld ==
    /\ catalog # None
    /\ held
    /\ \/ \E item \in StoreElements :
            /\ Len(catalog[1].tests) < MaxList
            /\ call' = [op |-> "list.append", item |-> item]
            /\ catalog' = Some([catalog[1] EXCEPT !.tests = Append(@, item)])
       \/ /\ catalog[1].tests # <<>>
          /\ call' = [op |-> "list.pop"]
          /\ catalog' = Some([catalog[1] EXCEPT !.tests = SubSeq(@, 1, Len(@) - 1)])
    /\ ret' = Return(None)
    /\ pc' = "stored"
    /\ UNCHANGED <<held, log, runVars>>

-----------------------------------------------------------------------------
(* runner.main: the inventory, the tests and the units made of them.       *)

\* the devices of the inventory, in its order, and the tags of each
DeviceNames == <<"d1", "d2", "d3">>
DeviceTags(d) == IF d = "d1" THEN {"dc1"} ELSE IF d = "d2" THEN {"dc1", "dc2"} ELSE {"dc2"}

\* the key of the parameters of a test that go to its template
TEST_TPL_PARAMS == "template_params"

\* the callables of the tests: test[0](device, template_params) may raise, and so may .test()
TestFns == {"verify_ok", "verify_raising", "verify_unbuildable"}
Builds(fn, device) == fn # "verify_unbuildable"
Raises(fn, device) == fn = "verify_raising" /\ device = "d1"

\* the parameters of a test, test[1], as the items of a dict
TestParams(fn) ==
    IF fn = "verify_ok" THEN <<Item("number", "3"), Item(TEST_TPL_PARAMS, <<"default">>)>>
    ELSE IF fn = "verify_raising" THEN <<Item("vrf", "default")>>
    ELSE <<>>

RunTests == {[fn |-> fn, params |-> TestParams(fn)] : fn \in TestFns}

\* the arguments of main; unreachable are the devices no connection can be made to
Jobs ==
    [op : {"main"},
     unreachable : {{}, {"d2"}},
     tests : SeqsUpTo(RunTests, MaxTests),
     tags : {None, Some(<<"dc1">>)},
     established_only : BOOLEAN]

(* inventory.get_inventory(established_only, tags): the devices of the     *)
(* inventory, in its order, that are established when established_only,   *)
(* and that have one of the tags when tags are given.                      *)
get_inventory(connections, established_only, tags) ==
    SelectSeq(DeviceNames,
              LAMBDA d : /\ established_only => connections[d] = "established"
                         /\ tags # None => Range(tags[1]) \cap DeviceTags(d) # {})

\* zip(a, b) in the place of itertools.product(a, b)
product_zipped(a, b) ==
    [k \in 1..(IF Len(a) < Len(b) THEN Len(a) ELSE Len(b)) |-> <<a[k], b[k]>>]

\* itertools.product(b, a) read as pairs of a and b: b's order first
product_swapped(a, b) ==
    [k \in 1..(Len(a) * Len(b)) |-> <<a[((k - 1) % Len(a)) + 1], b[((k - 1) \div Len(a)) + 1]>>]

\* itertools.product(a, b): every element of a with every element of b, a's order first
product(a, b) ==
    [k \in 1..(Len(a) * Len(b)) |-> <<a[((k - 1) \div Len(b)) + 1], b[((k - 1) % Len(b)) + 1]>>]

\* a unit that gets every parameter of the test as a keyword argument
Unit_passing_all(device, test, j) ==
    [device |-> device,
     test |-> j,
     fn |-> test.fn,
     test_params |-> test.params,
     template_params |->
        IF \E i \in DOMAIN test.params : test.params[i].key = TEST_TPL_PARAMS
        THEN (CHOOSE it \in Range(test.params) : it.key = TEST_TPL_PARAMS).value
        ELSE <<>>,
     status |-> "created"]

(* The coroutine test[0](device, template_params).test(eos_data, test_params) *)
(* of the j-th test: the parameters but template_params go to .test().     *)
Unit(device, test, j) ==
    [device |-> device,
     test |-> j,
     fn |-> test.fn,
     test_params |-> SelectSeq(test.params, LAMBDA it : it.key # TEST_TPL_PARAMS),
     template_params |->
        IF \E i \in DOMAIN test.params : test.params[i].key = TEST_TPL_PARAMS
        THEN (CHOOSE it \in Range(test.params) : it.key = TEST_TPL_PARAMS).value
        ELSE <<>>,
     status |-> "created"]

\* what a unit gives to gather: the TestResult it returns or the exception it raises
Outcome(unit) ==
    [kind |-> IF Raises(unit.fn, unit.device) THEN "Exception" ELSE "TestResult",
     device |-> unit.device, test |-> unit.test, fn |-> unit.fn]

\* connect_inventory() returns when every device was tried
ConnectCompleted == \A d \in Range(DeviceNames) : conn[d] \in {"established", "failed"}

\* asyncio.wait(FIRST_COMPLETED) in the place of gather
AnyUnitDone == \E u \in DOMAIN units : units[u].status \in {"returned", "raised"}

\* gather returns when every coroutine has returned or raised
AllUnitsDone == \A u \in DOMAIN units : units[u].status \in {"returned", "raised"}

\* gather(return_exceptions=False)
return_exceptions_off == FALSE

\* gather(coros, return_exceptions=True)
return_exceptions == TRUE

\* a manager that keeps whatever it is handed
add_test_results_keeping(kept, entries) == kept \o entries

\* manager.add_test_results(entries): the results are kept, the errors dropped
add_test_results(kept, entries) ==
    kept \o SelectSeq(entries, LAMBDA r : r.kind = "TestResult")

\* the logging of main after gather: an error per exception, then the list
main_log(res) ==
    [i \in DOMAIN SelectSeq(res, LAMBDA r : r.kind = "Exception") |->
        LogRecord("error", "Error when running tests", None)]
    \o <<LogRecord("info", "List of test result", None)>>

\* main(manager, inventory, tests, tags, established_only) is called and awaits connect_inventory()
StartMain ==
    /\ rpc = "idle"
    /\ \E j \in Jobs : job' = j
    /\ conn' = [d \in Range(DeviceNames) |-> "connecting"]
    /\ rpc' = "connecting"
    /\ UNCHANGED <<libVars, log, selected, units, handed, results>>

\* connect_inventory(): the connection to one device is made, or fails
DeviceConnects(d) ==
    /\ rpc # "idle"
    /\ conn[d] = "connecting"
    /\ conn' = [conn EXCEPT ![d] = IF d \in job.unreachable THEN "failed" ELSE "established"]
    /\ UNCHANGED <<libVars, log, rpc, job, selected, units, handed, results>>

\* connect_inventory() is called and main goes on without awaiting it
AwaitConnectSkipped ==
    /\ rpc = "connecting"
    /\ rpc' = "connected"
    /\ UNCHANGED <<libVars, log, job, conn, selected, units, handed, results>>

\* await inventory.connect_inventory(): main goes on when it has returned
AwaitConnect ==
    /\ rpc = "connecting"
    /\ ConnectCompleted
    /\ rpc' = "connected"
    /\ UNCHANGED <<libVars, log, job, conn, selected, units, handed, results>>

(* The loop of main with test[1].pop(TEST_TPL_PARAMS, []) in the place of  *)
(* test[1].get(TEST_TPL_PARAMS, []): the key leaves the dict of the test.  *)
BuildUnits_popping ==
    /\ rpc = "connected"
    /\ LET devices == get_inventory(conn, job.established_only, job.tags)
           pairs == product(devices, [j \in DOMAIN job.tests |-> j])
           failing == {k \in DOMAIN pairs : ~Builds(job.tests[pairs[k][2]].fn, pairs[k][1])}
           built == IF failing = {} THEN Len(pairs)
                    ELSE (CHOOSE k \in failing : \A l \in failing : k <= l) - 1
       IN  /\ selected' = Some(devices)
           /\ units' = [k \in 1..built |-> Unit(pairs[k][1], job.tests[pairs[k][2]], pairs[k][2])]
           /\ rpc' = IF failing = {} THEN "built" ELSE "raised"
           /\ job' = [job EXCEPT !.tests =
                        [j \in DOMAIN job.tests |->
                            IF \E k \in 1..built : pairs[k][2] = j
                            THEN [job.tests[j] EXCEPT !.params =
                                    SelectSeq(@, LAMBDA it : it.key # TEST_TPL_PARAMS)]
                            ELSE job.tests[j]]]
    /\ UNCHANGED <<libVars, log, conn, handed, results>>

(* The loop of main: get_inventory is called, then a coroutine is made for *)
(* each device and each test; an exception of test[0](...) leaves main.    *)
BuildUnits ==
    /\ rpc = "connected"
    /\ LET devices == get_inventory(conn, job.established_only, job.tags)
           pairs == product(devices, [j \in DOMAIN job.tests |-> j])
           failing == {k \in DOMAIN pairs : ~Builds(job.tests[pairs[k][2]].fn, pairs[k][1])}
           built == IF failing = {} THEN Len(pairs)
                    ELSE (CHOOSE k \in failing : \A l \in failing : k <= l) - 1
       IN  /\ selected' = Some(devices)
           /\ units' = [k \in 1..built |-> Unit(pairs[k][1], job.tests[pairs[k][2]], pairs[k][2])]
           /\ rpc' = IF failing = {} THEN "built" ELSE "raised"
    /\ UNCHANGED <<libVars, log, job, conn, handed, results>>

\* asyncio.gather(coros): every coroutine becomes a task, and main awaits them
Gather ==
    /\ rpc = "built"
    /\ units' = [u \in DOMAIN units |-> [units[u] EXCEPT !.status = "running"]]
    /\ rpc' = "gathering"
    /\ UNCHANGED <<libVars, log, job, conn, selected, handed, results>>

(* A task ends: it returns its result or raises.  Without return_exceptions *)
(* the first exception would be raised in main, which awaits gather.       *)
UnitFinishes(u) ==
    /\ units[u].status = "running"
    /\ units' = [units EXCEPT ![u].status =
                    IF Raises(units[u].fn, units[u].device) THEN "raised" ELSE "returned"]
    /\ rpc' = IF rpc = "gathering" /\ ~return_exceptions /\ Raises(units[u].fn, units[u].device)
              THEN "raised" ELSE rpc
    /\ UNCHANGED <<libVars, log, job, conn, selected, handed, results>>

(* gather returns the results and the exceptions in the order of the       *)
(* coroutines; main logs the exceptions and hands the list to the manager. *)
Publish ==
    /\ rpc = "gathering"
    /\ AllUnitsDone
    /\ LET res == [u \in DOMAIN units |-> Outcome(units[u])]
       IN  /\ log' = log \o main_log(res)
           /\ handed' = Append(handed, res)
           /\ results' = add_test_results(results, res)
    /\ rpc' = "returned"
    /\ UNCHANGED <<libVars, job, conn, selected, units>>

NextRun ==
    \/ StartMain
    \/ \E d \in Range(DeviceNames) : DeviceConnects(d)
    \/ AwaitConnect
    \/ BuildUnits
    \/ Gather
    \/ \E u \in DOMAIN units : UnitFinishes(u)
    \/ Publish

\* VerifyAPISSLCertificate.test() on the outputs of a device whose clock shows 0
RunVerifyAPISSLCertificate ==
    /\ pc = "idle"
    /\ \E certificates \in CertificateInputs, output \in CertificateOutputs :
        /\ call' = [op |-> "VerifyAPISSLCertificate", certificates |-> certificates,
                    output |-> output, utcTime |-> 0]
        /\ ret' = Return(VerifyAPISSLCertificate_test(certificates, output, 0))
    /\ pc' = "tested"
    /\ UNCHANGED <<catalog, held, log, runVars>>

\* VerifyL3MTU.test() on the output of a device
RunVerifyL3MTU ==
    /\ pc = "idle"
    /\ \E inputs \in L3MTUInputs, output \in L3MTUOutputs :
        /\ call' = [op |-> "VerifyL3MTU", inputs |-> inputs, output |-> output]
        /\ ret' = VerifyL3MTU_test(inputs, output)
    /\ pc' = "tested"
    /\ UNCHANGED <<catalog, held, log, runVars>>

NextTests == RunVerifyAPISSLCertificate \/ RunVerifyL3MTU

NextBind == Construct \/ Rebind
NextTags == FromList \/ GetTestsByTags

NextStore == NewCatalog \/ ReadTests \/ SetTests \/ MutateHeld

NextLoad == FromDict \/ FromList \/ Parse

Next == Construct \/ Rebind \/ FromList \/ FromDict \/ Parse \/ GetTestsByTags
        \/ NewCatalog \/ ReadTests \/ SetTests \/ MutateHeld \/ NextRun \/ NextTests

\* every call of the library
Spec == Init /\ [][Next]_vars
\* the binder alone
SpecBind == Init /\ [][NextBind]_vars
\* a catalog built from a list, and its tag filter
SpecTags == Init /\ [][NextTags]_vars
\* the loading of a catalog
SpecLoad == Init /\ [][NextLoad]_vars
\* a catalog and the list of its tests
SpecStore == Init /\ [][NextStore]_vars
\* a run of runner.main
SpecRun == Init /\ [][NextRun]_vars
\* the tests run on the outputs of a device
SpecTests == Init /\ [][NextTests]_vars
(* A run on an event loop that goes on: a connection that is being made    *)
(* is made or fails, a task that runs ends, and main takes its next step   *)
(* when it can.                                                            *)
SpecRunFair == SpecRun /\ WF_vars(NextRun)

-----------------------------------------------------------------------------
(* What a document declares, read off the document itself: every list or   *)
(* scalar that stands under a key, at any depth, with the module its key   *)
(* names (None when the module cannot be imported).                        *)

RECURSIVE DeclaredLeaves(_, _)
DeclaredLeaves(items, package) ==
    IF items = <<>> THEN <<>>
    ELSE LET key == items[1].key
             value == items[1].value
             module == import_module(IF package # None /\ ~key.rel THEN Name(TRUE, key.path) ELSE key,
                                     package)
         IN  (IF ~module.ok THEN <<[module |-> None, value |-> value]>>
              ELSE IF value.kind = "dict" THEN DeclaredLeaves(value.items, Some(module.value))
              ELSE <<[module |-> Some(module.value), value |-> value]>>)
             \o DeclaredLeaves(Tail(items), package)

\* an entry that is not a mapping with exactly one key
Malformed(entry) == entry.kind # "dict" \/ Len(entry.items) # 1

\* a declared leaf that cannot be loaded: no module, no list, or an entry that gives no definition
InvalidLeaf(leaf) ==
    \/ leaf.module = None
    \/ leaf.value.kind # "list"
    \/ \E e \in DOMAIN leaf.value.items : ~CheckEntry(leaf.module[1], leaf.value.items[e]).ok

\* the call was from_dict on a mapping with at least one key
LoadedDocument == call.op = "from_dict" /\ call.data.kind = "dict" /\ call.data.items # <<>>

-----------------------------------------------------------------------------
(* C1.  Loading is atomic: when a document or a list holds a declaration   *)
(* that is not valid (a module that cannot be imported, a leaf that is no  *)
(* list, a malformed entry, a test its module does not define, inputs that *)
(* do not bind), from_dict and from_list raise and return no catalog.      *)
C1_LoadIsAtomic ==
    /\ LoadedDocument /\ (\E i \in DOMAIN DeclaredLeaves(call.data.items, None) :
                            InvalidLeaf(DeclaredLeaves(call.data.items, None)[i]))
       => ~ret.ok /\ catalog = None
    /\ call.op = "from_list"
         /\ (\E i \in DOMAIN call.data : ~AntaTestDefinition(call.data[i].test, call.data[i].inputs).ok)
       => ~ret.ok /\ catalog = None

(* C10.  Every entry of a document that is not a mapping with exactly one  *)
(* key makes from_dict raise and return no catalog, and a syntax error     *)
(* about an entry names a malformed entry of the document.                 *)
C10_MalformedEntryFails ==
    LoadedDocument =>
        LET leaves == DeclaredLeaves(call.data.items, None)
            malformed == {entry \in UNION {Range(leaves[i].value.items) :
                                            i \in {j \in DOMAIN leaves : leaves[j].value.kind = "list"}} :
                            Malformed(entry)}
        IN  /\ malformed # {} => ~ret.ok /\ catalog = None
            /\ ~ret.ok /\ ret.err.code \in {"syntax_not_a_dict", "syntax_not_single_entry"}
                 => ret.err.detail \subseteq malformed /\ ret.err.detail # {}

-----------------------------------------------------------------------------
(* The tag filter.                                                         *)

\* the set of tags a definition declares: empty without filters or without tags
TagSet(test) ==
    IF test.inputs.vals.filters = None \/ test.inputs.vals.filters[1].tags = None
    THEN {}
    ELSE Range(test.inputs.vals.filters[1].tags[1])

Queried == call.op = "get_tests_by_tags"

(* C2.  get_tests_by_tags(tags, strict=True) returns exactly the           *)
(* definitions that declare a non-empty tag set of which every requested   *)
(* tag is a member.                                                        *)
C2_StrictRequestedSubset ==
    Queried /\ call.strict =>
        ret.value = SelectSeq(catalog[1].tests,
                              LAMBDA test : TagSet(test) # {} /\ Range(call.tags) \subseteq TagSet(test))

(* C3.  get_tests_by_tags(tags, strict=False) returns exactly the          *)
(* definitions that declare a non-empty tag set sharing at least one tag   *)
(* with the requested tags, in the order of the catalog.                   *)
C3_NonStrictSharesATag ==
    Queried /\ ~call.strict =>
        ret.value = SelectSeq(catalog[1].tests,
                              LAMBDA test : TagSet(test) \cap Range(call.tags) # {})

\* a filter on ["dc1"] returned one definition of a catalog of two and left the other out
C3_Witness ==
    /\ Queried /\ ~call.strict /\ call.tags = <<"dc1">>
    /\ Len(catalog[1].tests) = 2 /\ Len(ret.value) = 1
    /\ "dc1" \in TagSet(ret.value[1])
    /\ \E i \in DOMAIN catalog[1].tests : TagSet(catalog[1].tests[i]) = {"dc2"}

(* C4.  A definition tagged {dc1, dc2}, filtered with [dc1, dc3], is       *)
(* absent from the result under strict=True and present under strict=False.*)
C4_Dc1Dc2AgainstDc1Dc3 ==
    Queried /\ call.tags = <<"dc1", "dc3">> =>
        \A i \in DOMAIN catalog[1].tests :
            TagSet(catalog[1].tests[i]) = {"dc1", "dc2"} =>
                (catalog[1].tests[i] \in Range(ret.value) <=> ~call.strict)

\* the strict filter [dc1, dc3] left out a definition tagged {dc1, dc2}
C4_Witness ==
    /\ Queried /\ call.strict /\ call.tags = <<"dc1", "dc3">>
    /\ \E i \in DOMAIN catalog[1].tests :
        /\ TagSet(catalog[1].tests[i]) = {"dc1", "dc2"}
        /\ catalog[1].tests[i] \notin Range(ret.value)

\* a definition without filters, without tags or with an empty list of tags
NoDeclaredTags(test) ==
    \/ test.inputs.vals.filters = None
    \/ test.inputs.vals.filters[1].tags = None
    \/ test.inputs.vals.filters[1].tags[1] = <<>>

(* C5.  A definition without filters, or whose filters declare no tags or  *)
(* an empty list of tags, is in no result of get_tests_by_tags, whatever   *)
(* the requested tags (the empty list included) and strict.                *)
C5_UntaggedNeverMatch ==
    Queried =>
        \A i \in DOMAIN catalog[1].tests :
            NoDeclaredTags(catalog[1].tests[i]) => catalog[1].tests[i] \notin Range(ret.value)

\* the strict filter on the empty list left out a definition whose list of tags is empty
C5_Witness ==
    /\ Queried /\ call.strict /\ call.tags = <<>>
    /\ \E i \in DOMAIN catalog[1].tests :
        /\ catalog[1].tests[i].inputs.vals.filters = Filters(Some(<<>>))
        /\ catalog[1].tests[i] \notin Range(ret.value)

-----------------------------------------------------------------------------
(* The binding of a test's inputs.                                         *)

Constructed == call.op = "AntaTestDefinition"

(* C6, as claimed.  Every constructed AntaTestDefinition has inputs whose  *)
(* class is exactly the Input class of its test.                           *)
C6_InputsTypeExact ==
    Constructed /\ ret.ok => ret.value.inputs.cls = InputOf(ret.value.test)

(* C6, amended.  Every constructed AntaTestDefinition has inputs that are  *)
(* an instance of the Input class of its test or of a subclass of it, and  *)
(* of exactly that class when built from None or a dict; an instance of    *)
(* any other class is refused, an instance of a subclass is accepted.      *)
C6_InputsIsInstance ==
    Constructed =>
        /\ ret.ok => IsSubclass(ret.value.inputs.cls, InputOf(ret.value.test))
        /\ ret.ok /\ call.inputs.kind \in {"NoneType", "dict"}
             => ret.value.inputs.cls = InputOf(call.test)
        /\ call.inputs.kind = "Input"
             => (ret.ok <=> IsSubclass(call.inputs.obj.cls, InputOf(call.test)))
        /\ call.inputs.kind = "Input" /\ ~ret.ok
             => ret.err.code = "input_type" /\ ret.value = None

\* an instance of VerifyAPIHttpsSSL.Input was refused as the inputs of VerifySSHIPv4Acl
C6_Witness ==
    /\ Constructed /\ call.test = "VerifySSHIPv4Acl"
    /\ call.inputs.kind = "Input" /\ call.inputs.obj.cls = "VerifyAPIHttpsSSL.Input"
    /\ ~ret.ok /\ ret.err.code = "input_type"

(* C7.  With inputs None the binding succeeds exactly when every field of  *)
(* the test's Input has a default; otherwise it fails with a validation    *)
(* error that names the test and at least one missing field.               *)
C7_NoneBindsIffAllDefaults ==
    Constructed /\ call.inputs = RawNone =>
        /\ ret.ok <=> (\A f \in Fields(InputOf(call.test)) : f \notin RequiredFields(InputOf(call.test)))
        /\ ~ret.ok =>
            /\ ret.err.exc = "ValidationError" /\ ret.err.code = "wrong_test_inputs"
            /\ ret.err.test = call.test
            /\ \E e \in ret.err.detail :
                e.type = "missing" /\ e.loc \in RequiredFields(InputOf(call.test))
        /\ ret.ok =>
            \A f \in Fields(InputOf(call.test)) : ret.value.inputs.vals[f] = Default(f)

\* VerifySSHIPv4Acl, whose number has no default, did not bind None
C7_Witness ==
    /\ Constructed /\ call.inputs = RawNone /\ call.test = "VerifySSHIPv4Acl"
    /\ ~ret.ok /\ [loc |-> "number", type |-> "missing"] \in ret.err.detail

(* C8.  Binding is idempotent: an Input instance given as inputs is the    *)
(* inputs of the definition built, unchanged, and binding a test with the  *)
(* inputs of a definition of that test succeeds and gives an equal         *)
(* definition.                                                            *)
C8_BindIsIdempotent ==
    Constructed =>
        /\ call.inputs.kind = "Input" /\ ret.ok => ret.value.inputs = call.inputs.obj
        /\ call.prev # None /\ call.test = call.prev[1].test
             => ret.ok /\ ret.value = call.prev[1]

\* a definition of VerifySSHIPv4Acl built from a dict was bound again
C8_Witness ==
    /\ pc = "rebound" /\ call.test = "VerifySSHIPv4Acl" /\ call.prev # None
    /\ call.prev[1].test = "VerifySSHIPv4Acl"
    /\ call.prev[1].inputs.vals.vrf = "MGMT"
    /\ ret.ok /\ ret.value.inputs.vals.vrf = "MGMT"

(* C9.  Inputs that are neither None, nor a dict, nor an Input instance    *)
(* always fail with an error that reports their type; no definition is     *)
(* built.                                                                  *)
C9_OtherInputsRefused ==
    Constructed /\ call.inputs.kind \notin {"NoneType", "dict", "Input"} =>
        /\ ~ret.ok /\ ret.value = None
        /\ ret.err.code = "type_not_valid" /\ ret.err.detail = {call.inputs.kind}

\* a list was refused as the inputs of a test that binds None
C9_Witness ==
    /\ Constructed /\ call.test = "VerifySSHStatus" /\ call.inputs.kind = "list"
    /\ ~ret.ok /\ ret.err.detail = {"list"}

-----------------------------------------------------------------------------
(* C11: how the keys of a nested mapping are resolved.  The documents that *)
(* show it are chains: one key at each level, then a list of one entry     *)
(* that any module of tests binds.                                         *)

RECURSIVE IsChain(_)
IsChain(value) ==
    /\ value.kind = "dict"
    /\ Len(value.items) = 1
    /\ \/ value.items[1].value = ListValue(<<GoodEntry>>)
       \/ IsChain(value.items[1].value)

\* the keys of a chain, from the top level down
RECURSIVE ChainKeys(_)
ChainKeys(value) ==
    IF value.kind # "dict" THEN <<>>
    ELSE <<value.items[1].key>> \o ChainKeys(value.items[1].value)

(* The module the keys lead to from package, None when a key names no      *)
(* module: a key with a leading dot is read from the package above it, a   *)
(* key without one is read from there too when nested_relative holds and   *)
(* it stands below the top level, and as an absolute name otherwise.       *)
RECURSIVE ChainModule(_, _, _)
ChainModule(keys, package, nested_relative) ==
    IF keys = <<>> THEN package
    ELSE
      LET key == keys[1]
          relative == key.rel \/ (nested_relative /\ package # None)
          target == IF ~relative THEN key.path
                    ELSE IF package = None THEN <<>> ELSE package[1] \o key.path
      IN  IF target \in Modules
          THEN ChainModule(Tail(keys), Some(target), nested_relative)
          ELSE None

\* the chain loads when its keys lead to a module that defines the test of GoodEntry
ChainLoads(module) == module # None /\ GoodEntry.items[1].key \in Members(module[1])

LoadedChain == call.op = "from_dict" /\ IsChain(call.data)

(* C11 as stated: a nested key with a leading dot is resolved from its     *)
(* parent, a nested key without one as an absolute name, at every depth.   *)
C11_DotlessNestedKeyIsAbsolute ==
    LoadedChain => (ret.ok <=> ChainLoads(ChainModule(ChainKeys(call.data), None, FALSE)))

(* C11 amended: every nested key is resolved from its parent, with or      *)
(* without a leading dot, at every depth; only a key of the top level is   *)
(* an absolute name, and there a leading dot names no module.              *)
C11_NestedKeyIsRelative ==
    LoadedChain =>
        /\ ret.ok <=> ChainLoads(ChainModule(ChainKeys(call.data), None, TRUE))
        /\ ret.ok => Len(ret.value.tests) = 1

\* three levels, the nested keys without a dot, and the entry is loaded
C11_Witness ==
    /\ LoadedChain
    /\ Len(ChainKeys(call.data)) = 3
    /\ \A i \in 1..3 : ~ChainKeys(call.data)[i].rel
    /\ ret.ok
    /\ Len(ret.value.tests) = 1

-----------------------------------------------------------------------------
(* C12: the documents that declare nothing.                                *)

\* from_dict was given no document, or a mapping without keys
LoadedNothing ==
    /\ call.op = "from_dict"
    /\ call.data.kind = "NoneType" \/ call.data = DictValue(<<>>)

(* C12 as stated: loading a null document or a mapping with no keys gives  *)
(* a catalog of no definitions that keeps the file name it was given, and  *)
(* raises nothing.                                                         *)
C12_NothingLoadsAsEmptyCatalog ==
    LoadedNothing =>
        /\ ret.ok
        /\ ret.value = AntaCatalog(<<>>, call.filename)
        /\ catalog = Some(ret.value)

-----------------------------------------------------------------------------
(* C13: a file that cannot be read or decoded.                             *)

\* what reading the file of the last call of parse gave
ParseRead == safe_load(call.filename, call.file)

\* parse was called on a file that cannot be read or decoded
ParsedUnreadable == call.op = "parse" /\ ~ParseRead.ok

-----------------------------------------------------------------------------
(* C14: one definition per declared entry.                                 *)

\* the number of entries in the lists of the declared leaves
RECURSIVE EntryCount(_)
EntryCount(leaves) ==
    IF leaves = <<>> THEN 0
    ELSE Len(leaves[1].value.items) + EntryCount(Tail(leaves))

\* from_dict was given a document all of whose declarations are valid
LoadedValidDocument ==
    /\ LoadedDocument
    /\ \A i \in DOMAIN DeclaredLeaves(call.data.items, None) :
            ~InvalidLeaf(DeclaredLeaves(call.data.items, None)[i])

(* C14 as stated: for every valid document the catalog from_dict returns   *)
(* holds exactly one definition per declared entry, whatever the keys the  *)
(* entries stand under, two keys that name the same module included.       *)
C14_OneDefinitionPerEntry ==
    LoadedValidDocument =>
        /\ ret.ok
        /\ Len(ret.value.tests) = EntryCount(DeclaredLeaves(call.data.items, None))

-----------------------------------------------------------------------------
(* C15: assigning the tests of a catalog.                                  *)

\* the last call assigned catalog.tests
Assigned == call.op = "tests.setter"

\* the value is a list and each of its elements is a definition
ListOfDefinitions(value) ==
    /\ value.kind = "list"
    /\ \A i \in DOMAIN value.items : value.items[i] \in StoreDefinitions

(* C15.  Assigning catalog.tests replaces the whole list when the value is *)
(* a list of which every element is an AntaTestDefinition; any other       *)
(* value raises a TypeError and the tests are exactly as before.           *)
C15_AssignmentIsTypeChecked ==
    Assigned =>
        IF ListOfDefinitions(call.value)
        THEN ret.ok /\ catalog[1].tests = call.value.items
        ELSE ~ret.ok /\ ret.err.exc = "TypeError" /\ catalog[1].tests = call.before

\* a list with a string in it is refused and the catalog keeps its definition
C15_Witness ==
    /\ Assigned
    /\ call.value.kind = "list"
    /\ \E i \in DOMAIN call.value.items : call.value.items[i] = RawOther("str")
    /\ ~ret.ok
    /\ call.before # <<>>
    /\ catalog[1].tests = call.before

-----------------------------------------------------------------------------
(* C16: what the list of a catalog holds.                                  *)

(* C16 as stated: whatever the caller does (constructing with a list,      *)
(* reading the property and changing the list it returns, changing the     *)
(* list given to the constructor or to the setter, assigning the tests),   *)
(* every element of catalog.tests is an AntaTestDefinition and the content *)
(* changes only by a type-checked assignment of the whole list.            *)
C16_TestsChangeOnlyByAssignment ==
    [][catalog' # None =>
        /\ \A i \in DOMAIN catalog'[1].tests : IsDefinition(catalog'[1].tests[i])
        /\ (catalog # None /\ catalog'[1].tests # catalog[1].tests)
            => (call'.op = "tests.setter" /\ ret'.ok)]_vars

-----------------------------------------------------------------------------
(* C17 to C20: a run of runner.main.                                       *)

\* the states of the units
Running(u) == units[u].status = "running"
Returned(u) == units[u].status = "returned"
Raised(u) == units[u].status = "raised"
EveryUnitEnded == \A u \in DOMAIN units : Returned(u) \/ Raised(u)
EveryDeviceTried == \A d \in Range(DeviceNames) : conn[d] # "connecting"

\* the devices get_inventory has to return, read off the job and the connections
Selectable(d) ==
    /\ job.established_only => conn[d] = "established"
    /\ job.tags # None => \E t \in Range(job.tags[1]) : t \in DeviceTags(d)

(* C17.  The connection of the whole inventory has completed before the    *)
(* devices are selected and before any unit is created or started: while   *)
(* a device is still connecting, get_inventory was not called and there is *)
(* no unit, and the selection is the one the final connections give.       *)
C17_ConnectBeforeUnits ==
    /\ (selected # None \/ units # <<>>) => EveryDeviceTried
    /\ rpc \in {"idle", "connecting"} => selected = None /\ units = <<>>
    /\ selected # None => \A d \in Range(DeviceNames) : d \in Range(selected[1]) <=> Selectable(d)

\* units run, and a device of the inventory could not be connected to
C17_Witness ==
    /\ \E u \in DOMAIN units : Running(u)
    /\ \E d \in Range(DeviceNames) : conn[d] = "failed"
    /\ EveryDeviceTried

C19_HandedOnceAfterAllUnits ==
    /\ Len(handed) <= 1
    /\ handed # <<>> => EveryUnitEnded /\ Len(handed[1]) = Len(units)
    /\ rpc = "returned" => Len(handed) = 1 /\ \A u \in DOMAIN units : ~Running(u)
    /\ (\E u \in DOMAIN units : Running(u)) => rpc = "gathering" /\ handed = <<>>

\* main has returned after six units, and the manager got their six outcomes
C19_Witness ==
    /\ rpc = "returned"
    /\ Len(units) = 6
    /\ Len(handed) = 1
    /\ Len(handed[1]) = 6

(* C20.  A unit that raises neither cancels a sibling nor keeps it from    *)
(* ending: a running unit can always end, whatever the others did; when    *)
(* every unit has ended, main has handed the outcomes to the manager, the  *)
(* TestResult of each unit that returned among them.                       *)
C20_RaisingUnitIsIsolated ==
    /\ \A u \in DOMAIN units : Running(u) => ENABLED UnitFinishes(u)
    /\ \A u \in DOMAIN units : units[u].status \in {"created", "running", "returned", "raised"}
    /\ (units # <<>> /\ EveryUnitEnded /\ rpc # "gathering") =>
        /\ rpc = "returned"
        /\ Len(handed) = 1
        /\ \A u \in DOMAIN units : Returned(u) =>
                handed[1][u] = [kind |-> "TestResult", device |-> units[u].device,
                                test |-> units[u].test, fn |-> units[u].fn]

\* two devices and three tests, one unit raised: the five others gave their results
C20_Witness ==
    /\ rpc = "returned"
    /\ Len(selected[1]) = 2
    /\ Len(job.tests) = 3
    /\ Len(units) = 6
    /\ Cardinality({u \in DOMAIN units : Raised(u)}) = 1
    /\ Cardinality({u \in DOMAIN units : Returned(u)}) = 5
    /\ Cardinality({u \in DOMAIN handed[1] : handed[1][u].kind = "TestResult"}) = 5

-----------------------------------------------------------------------------
(* C21: the errors of the units and the end of main.                       *)

(* C21 as stated: no error of a unit leaves main, whether the unit fails   *)
(* when it is built from the test and its parameters or when it runs:      *)
(* main never ends by raising, and when it has ended there is a unit for   *)
(* every selected device and test, each of which has run to its end.       *)
C21_NoUnitErrorLeavesMain ==
    /\ rpc # "raised"
    /\ rpc = "returned" =>
        /\ Len(units) = Len(selected[1]) * Len(job.tests)
        /\ EveryUnitEnded

-----------------------------------------------------------------------------
(* C22: what the manager holds after a run.                                *)

\* the units that returned, in the order of their creation
ReturnedUnits == SelectSeq(units, LAMBDA unit : unit.status = "returned")

(* C22.  After a run the results of the manager are the TestResults of the *)
(* units that returned, one for each, and nothing for a unit that raised:  *)
(* its exception is logged by main and dropped by the manager.  At any     *)
(* time the results are no more than the selected devices times the tests. *)
C22_ResultsOfReturnedUnitsOnly ==
    /\ \A i \in DOMAIN results : results[i].kind = "TestResult"
    /\ selected = None => results = <<>>
    /\ selected # None => Len(results) <= Len(selected[1]) * Len(job.tests)
    /\ rpc = "returned" =>
        /\ Len(results) = Len(ReturnedUnits)
        /\ \A i \in DOMAIN results :
                /\ results[i].device = ReturnedUnits[i].device
                /\ results[i].test = ReturnedUnits[i].test
        /\ Cardinality({i \in DOMAIN log : log[i].level = "error"})
            = Cardinality({u \in DOMAIN units : Raised(u)})

\* six units of which one raised: five results, and one error in the log
C22_Witness ==
    /\ rpc = "returned"
    /\ Len(units) = 6
    /\ Cardinality({u \in DOMAIN units : Raised(u)}) = 1
    /\ Len(results) = 5
    /\ Cardinality({i \in DOMAIN log : log[i].level = "error"}) = 1

-----------------------------------------------------------------------------
(* C23: the parameters of a test and the arguments of its units.           *)

\* the parameters of the test a unit is made of, and those under the template key
ParamsOf(u) == job.tests[units[u].test].params
TemplateItems(u) == {i \in DOMAIN ParamsOf(u) : ParamsOf(u)[i].key = "template_params"}

(* C23.  For every unit, the template parameter sets of its test are given *)
(* to the unit apart and are not among its keyword arguments; every other  *)
(* parameter is a keyword argument, its value unchanged, and there is no   *)
(* other keyword argument; a test without template parameter sets gives    *)
(* the empty list of sets and all its parameters as keyword arguments.     *)
C23_TemplateParamsApart ==
    \A u \in DOMAIN units :
        /\ \A i \in DOMAIN units[u].test_params : units[u].test_params[i].key # "template_params"
        /\ \A i \in DOMAIN ParamsOf(u) :
                ParamsOf(u)[i].key # "template_params"
                    => \E k \in DOMAIN units[u].test_params : units[u].test_params[k] = ParamsOf(u)[i]
        /\ \A k \in DOMAIN units[u].test_params :
                \E i \in DOMAIN ParamsOf(u) : units[u].test_params[k] = ParamsOf(u)[i]
        /\ Len(units[u].test_params) = Len(ParamsOf(u)) - Cardinality(TemplateItems(u))
        /\ \A i \in TemplateItems(u) : units[u].template_params = ParamsOf(u)[i].value
        /\ TemplateItems(u) = {} =>
                units[u].template_params = <<>> /\ units[u].test_params = ParamsOf(u)

\* a unit of a test with template parameter sets and one of a test without, side by side
C23_Witness ==
    /\ \E u \in DOMAIN units :
            /\ TemplateItems(u) # {}
            /\ units[u].template_params = <<"default">>
            /\ units[u].test_params = <<Item("number", "3")>>
    /\ \E u \in DOMAIN units :
            /\ TemplateItems(u) = {}
            /\ units[u].template_params = <<>>
            /\ units[u].test_params = <<Item("vrf", "default")>>

-----------------------------------------------------------------------------
(* C24: main and the tests it is given.                                    *)

(* C24.  No step of a run changes the tests main was given: their          *)
(* sequence, and the parameters of each, template parameter sets included, *)
(* are after every step what they were before it, whatever the inventory   *)
(* and whatever the units do.                                              *)
C24_RunLeavesTestsAlone ==
    [][job.op = "main" => job'.tests = job.tests]_vars

\* main has returned after units of a test with template parameter sets, which it still has
C24_Witness ==
    /\ rpc = "returned"
    /\ \E u \in DOMAIN units : units[u].template_params # <<>>
    /\ \E u \in DOMAIN units : Raised(u)
    /\ \A j \in DOMAIN job.tests : job.tests[j] \in RunTests

-----------------------------------------------------------------------------
(* C25: the end of a run.                                                  *)

(* C25 as stated: when the connection of the inventory has completed and   *)
(* every unit comes to return or raise, main comes to hand the results to  *)
(* the manager, once, and to return, with no unit at all as well.          *)
C25_MainHandsAndReturns ==
    (rpc = "connected") ~> (rpc = "returned" /\ Len(handed) = 1)

-----------------------------------------------------------------------------
(* C26: a catalog made from a list of pairs.                               *)

\* from_list was given pairs that all bind
ListedBindingPairs ==
    /\ call.op = "from_list"
    /\ \A i \in DOMAIN call.data : AntaTestDefinition(call.data[i].test, call.data[i].inputs).ok

(* C26.  For every list of pairs that all bind, from_list returns a        *)
(* catalog with as many tests as the list has pairs, the i-th of them the  *)
(* binding of the i-th pair, a repeated pair giving a definition each time *)
(* it stands in the list; the catalog names no file.                       *)
C26_FromListKeepsOrderAndRepeats ==
    ListedBindingPairs =>
        /\ ret.ok
        /\ catalog = Some(ret.value)
        /\ ret.value.filename = None
        /\ Len(ret.value.tests) = Len(call.data)
        /\ \A i \in DOMAIN call.data :
                ret.value.tests[i] = AntaTestDefinition(call.data[i].test, call.data[i].inputs).value

\* the same pair twice in the list: two definitions, the same
C26_Witness ==
    /\ ListedBindingPairs
    /\ Len(call.data) = 2
    /\ call.data[1] = call.data[2]
    /\ Len(ret.value.tests) = 2
    /\ ret.value.tests[1] = ret.value.tests[2]

-----------------------------------------------------------------------------
(* C27: the expiry of a certificate.                                       *)

\* VerifyAPISSLCertificate.test was run
TestedCertificates == call.op = "VerifyAPISSLCertificate"

\* the whole days from the clock of the device to the expiry of the i-th certificate
DaysLeft(i) ==
    (call.output[call.certificates[i].certificate_name][1].notAfter - call.utcTime) \div 86400

\* the result holds a failure about the expiry of the i-th certificate
ExpiryFailure(i) ==
    \E k \in DOMAIN ret.value.messages :
        /\ ret.value.messages[k].certificate = call.certificates[i].certificate_name
        /\ ret.value.messages[k].about \in {"about_to_expire", "expired"}

(* C27 as stated: a configured certificate passes the expiry check only if *)
(* the whole days until its expiry are more than its expiry_threshold, and *)
(* a failure is recorded whenever it is expired or expires within the      *)
(* threshold, 0 days and exactly expiry_threshold days included.           *)
C27_ExpiryWithinThresholdFails ==
    TestedCertificates =>
        \A i \in DOMAIN call.certificates :
            call.output[call.certificates[i].certificate_name] # None =>
                /\ ExpiryFailure(i) <=> DaysLeft(i) <= call.certificates[i].expiry_threshold
                /\ ExpiryFailure(i) => ret.value.result = "failure"

-----------------------------------------------------------------------------
(* C28: the MTU of the routed interfaces.                                  *)

\* VerifyL3MTU.test was run
TestedL3MTU == call.op = "VerifyL3MTU"

\* the interfaces of the output that are routed and not ignored
CheckedInterfaces ==
    {n \in DOMAIN call.output :
        /\ call.output[n] # <<>>
        /\ call.output[n][1].forwardingModel = "routed"
        /\ ~\E p \in {"Management", "Loopback", "Vxlan", "Tunnel"} :
                /\ Len(n) >= Len(p)
                /\ SubSeq(n, 1, Len(p)) = p}

\* the values that specific_mtu gives for an interface
GivenMTUs(n) ==
    {call.inputs.specific_mtu[k][n] :
        k \in {k \in DOMAIN call.inputs.specific_mtu : n \in DOMAIN call.inputs.specific_mtu[k]}}

\* the MTU an interface is to have: the ones given for it, or else the global one
WantedMTUs(n) == IF GivenMTUs(n) # {} THEN GivenMTUs(n) ELSE {call.inputs.mtu}

\* the interfaces whose MTU is not the wanted one
WrongInterfaces == {n \in CheckedInterfaces : \E w \in WantedMTUs(n) : call.output[n][1].mtu # w}

\* the interfaces the result reports
ReportedInterfaces ==
    UNION {{ret.value.messages[k].interfaces[x].interface : x \in DOMAIN ret.value.messages[k].interfaces} :
              k \in DOMAIN ret.value.messages}

-----------------------------------------------------------------------------
(* C29: the order of what main hands to the manager.                       *)

\* main has handed a list to the manager
HandedOnce == Len(handed) = 1

\* the place in the list of the unit of the i-th selected device and the j-th test
PlaceOf(i, j) == (i - 1) * Len(job.tests) + j

(* C29.  In whatever order the units of a run end, the list handed to the  *)
(* manager is in the order of submission: with n selected devices and m    *)
(* tests it has n * m entries, and the entry of the i-th device and the    *)
(* j-th test, counted from 1, is at place (i - 1) * m + j and is what that *)
(* unit ended with, a result or an error.                                  *)
C29_HandedInSubmissionOrder ==
    HandedOnce =>
        /\ Len(handed[1]) = Len(selected[1]) * Len(job.tests)
        /\ \A i \in DOMAIN selected[1] : \A j \in DOMAIN job.tests :
                /\ PlaceOf(i, j) \in DOMAIN handed[1]
                /\ handed[1][PlaceOf(i, j)].device = selected[1][i]
                /\ handed[1][PlaceOf(i, j)].test = j
                /\ handed[1][PlaceOf(i, j)].fn = job.tests[j].fn
                /\ handed[1][PlaceOf(i, j)].kind = "Exception" <=> Raised(PlaceOf(i, j))
                /\ handed[1][PlaceOf(i, j)].kind = "TestResult" <=> Returned(PlaceOf(i, j))

\* two devices and two different tests, the first unit an error and the others results
C29_Witness ==
    /\ HandedOnce
    /\ Len(selected[1]) >= 2
    /\ Len(job.tests) = 2
    /\ job.tests[1].fn = "verify_raising"
    /\ job.tests[2].fn = "verify_ok"
    /\ handed[1][1].kind = "Exception"
    /\ handed[1][2].kind = "TestResult"
    /\ handed[1][3].kind = "TestResult"

-----------------------------------------------------------------------------
(* C30: the strict and the loose query of the same tags.                   *)

\* s can be had from t by leaving elements of t out, the order kept
RECURSIVE LeftOutFrom(_, _)
LeftOutFrom(s, t) ==
    IF s = <<>> THEN TRUE
    ELSE IF t = <<>> THEN FALSE
    ELSE IF s[1] = t[1] THEN LeftOutFrom(Tail(s), Tail(t))
    ELSE LeftOutFrom(s, Tail(t))

\* get_tests_by_tags was called, with strict or without
QueriedStrictly == call.op = "get_tests_by_tags" /\ call.strict
QueriedLoosely == call.op = "get_tests_by_tags" /\ ~call.strict

(* C30.  A call of get_tests_by_tags leaves the catalog as it was and      *)
(* returns definitions of the catalog in the order of the catalog; and of  *)
(* two calls one after the other with the same tags, one strict and one    *)
(* not, what the strict one returns is within what the other returns,      *)
(* order and repeats kept.                                                 *)
C30_StrictWithinLoose ==
    [][call'.op = "get_tests_by_tags" =>
        /\ catalog' = catalog
        /\ LeftOutFrom(ret'.value, catalog[1].tests)
        /\ (QueriedStrictly /\ ~call'.strict /\ call'.tags = call.tags)
                => LeftOutFrom(ret.value, ret'.value)
        /\ (QueriedLoosely /\ call'.strict /\ call'.tags = call.tags)
                => LeftOutFrom(ret'.value, ret.value)]_vars

(* the loose query of a catalog of two definitions returned both, the      *)
(* second with a tag that was not requested, which a strict query leaves   *)
(* out, and the first without it                                           *)
C30_Witness ==
    /\ QueriedLoosely
    /\ Len(catalog[1].tests) = 2
    /\ ret.value = catalog[1].tests
    /\ \A i \in DOMAIN DeclaredTags(ret.value[1]) : DeclaredTags(ret.value[1])[i] \in Range(call.tags)
    /\ \E i \in DOMAIN DeclaredTags(ret.value[2]) : DeclaredTags(ret.value[2])[i] \notin Range(call.tags)

====
